---- MODULE Spec2Model ----
(***************************************************************************)
(* A model of the private-gpt2 ingestion tool (ingest.py), its document    *)
(* loaders, and the start-up of the query tool (privateGPT.py).            *)
(*                                                                         *)
(* Three specifications share the module:                                  *)
(*   Spec        repeated runs of ingest.py main() over one unchanged      *)
(*               source directory and one persist directory;               *)
(*   SpecLoader  load_single_document() and MyElmLoader.load() on one path;*)
(*   SpecQuery   privateGPT.py main(questions).                            *)
(***************************************************************************)
EXTENDS Integers, Sequences, FiniteSets, TLC

\* ------------------------------------------------------------- bounds ----
NumFiles == 2          \* files in the source directory
NumWorkers == 2        \* os.cpu_count(), the size of the Pool
MaxRuns == 3           \* ingestion runs in one behaviour
MaxIndexFiles == 4     \* index/*.bin + index/*.pkl present before the first run
ChunksPerPart == 2     \* chunks the text splitter cuts one document part into

\* ------------------------------------------------- program constants ----
max_number_of_parts_per_run == 5100

VARIABLES
    \* --- ingest.py: the environment of the runs
    source_dir,        \* file -> [parts, raises]: what loading the file gives
    persist_dir,       \* layout of PERSIST_DIRECTORY on disk
    store,             \* file -> number of chunk records whose source is file
    dirty,             \* records written since the last db.persist()
    \* --- ingest.py: one run of main()
    pc,                \* position of the main process
    mode,              \* "none", "append" or "create" (the branch of main)
    ignored_files,     \* sources handed to process_documents
    filtered_files,    \* files submitted to the pool
    task,              \* file -> state of its load task
    outqueue,          \* finished tasks whose result main has not yet taken
    collected,         \* number of results main has taken
    results,           \* load_documents' merged list, as blocks of parts
    documents,         \* the list handed to the text splitter
    texts,             \* the chunks returned by process_documents
    log,               \* what this run has done and logged
    added,             \* chunk records this run has written
    exit_status,       \* process exit status, -1 while running
    run,               \* number of the current run
    prev,              \* how the previous run ended
    \* --- ingest.py: one call of load_single_document(file_path)
    file_path,         \* the argument, a sequence of characters
    lpc,               \* position of the call
    ext,               \* the extension computed from file_path
    loader,            \* the loader class instantiated, "none" if none
    content_source,    \* MyElmLoader: unstructured_kwargs["content_source"]
    parse_calls,       \* calls of the underlying loader's load()
    first_outcome,     \* what the first load() gave
    retry_outcome,     \* what the second load() gave, "none" if not called
    lresult,           \* what the call returned or raised
    \* --- privateGPT.py: one run of main(questions)
    model_type,        \* MODEL_TYPE
    args,              \* parsed command line flags
    questions,         \* number of questions passed to main
    qpc,               \* position of main
    qtrace,            \* what main has constructed and done, in order
    answered,          \* questions answered so far
    qexit              \* "running", "ok" or the exception that ended main

ingestVars == <<source_dir, persist_dir, store, dirty, pc, mode, ignored_files,
                filtered_files, task, outqueue, collected, results, documents,
                texts, log, added, exit_status, run, prev>>

loaderVars == <<file_path, lpc, ext, loader, content_source, parse_calls,
                first_outcome, retry_outcome, lresult>>

queryVars == <<model_type, args, questions, qpc, qtrace, answered, qexit>>

vars == <<ingestVars, loaderVars, queryVars>>

\* ------------------------------------------------------------ helpers ----
Files == 1..NumFiles

\* Numbers of document parts one file may load into: none, a little more
\* than half the ceiling, exactly the ceiling, one more than the ceiling.
PartChoices == {0,
                max_number_of_parts_per_run \div 2 + 50,
                max_number_of_parts_per_run,
                max_number_of_parts_per_run + 1}

\* A file either loads into some number of parts or makes its loader raise.
DirEntries == [parts : PartChoices, raises : {FALSE}]
                \cup {[parts |-> 0, raises |-> TRUE]}

\* What PERSIST_DIRECTORY can hold before the first run: the index files
\* live in the index directory, so there are none without it.
PersistLayouts ==
    {pd \in [index_dir : BOOLEAN,
             collections_parquet : BOOLEAN,
             embeddings_parquet : BOOLEAN,
             index_files : 0..MaxIndexFiles] :
        ~pd.index_dir => pd.index_files = 0}

Min(a, b) == IF a <= b THEN a ELSE b
Max(a, b) == IF a >= b THEN a ELSE b

\* len() of a list of documents kept as blocks <<[source, parts], ...>>
RECURSIVE Total(_)
Total(blocks) ==
    IF blocks = <<>> THEN 0 ELSE Head(blocks).parts + Total(Tail(blocks))

\* The number of parts (or chunks) of file f in a list of blocks.
RECURSIVE PartsOf(_, _)
PartsOf(blocks, f) ==
    IF blocks = <<>> THEN 0
    ELSE (IF Head(blocks).source = f THEN Head(blocks).parts ELSE 0)
         + PartsOf(Tail(blocks), f)

\* results.extend(docs): an empty docs list leaves results as it is.
Extend(blocks, f, n) ==
    IF n = 0 THEN blocks ELSE Append(blocks, [source |-> f, parts |-> n])

\* documents[0:n]
RECURSIVE Slice(_, _)
Slice(blocks, n) ==
    IF blocks = <<>> \/ n = 0 THEN <<>>
    ELSE IF Head(blocks).parts <= n
         THEN <<Head(blocks)>> \o Slice(Tail(blocks), n - Head(blocks).parts)
         ELSE <<[source |-> Head(blocks).source, parts |-> n]>>

\* documents[-n:], the slice a wrong index expression would take
RECURSIVE SliceEnd(_, _)
SliceEnd(blocks, n) ==
    IF blocks = <<>> \/ n = 0 THEN <<>>
    ELSE LET last == blocks[Len(blocks)]
             front == SubSeq(blocks, 1, Len(blocks) - 1)
         IN IF last.parts <= n
            THEN SliceEnd(front, n - last.parts) \o <<last>>
            ELSE <<[source |-> last.source, parts |-> n]>>

\* Variant: the last parts are kept instead of the first.
Truncate_keeps_tail(docs) == SliceEnd(docs, max_number_of_parts_per_run)

\* ingest.py:159  documents = documents[0:max_number_of_parts_per_run]
Truncate(docs) == Slice(docs, max_number_of_parts_per_run)

\* ingest.py:162-163  every part is cut into chunks that inherit its metadata
split_documents(docs) ==
    [i \in 1..Len(docs) |->
        [source |-> docs[i].source, parts |-> docs[i].parts * ChunksPerPart]]

\* Variant: three index files are enough.
does_vectorstore_exist_off_by_one(pd) ==
    IF pd.index_dir
    THEN IF pd.collections_parquet /\ pd.embeddings_parquet
         THEN pd.index_files >= 3
         ELSE FALSE
    ELSE FALSE

\* ingest.py:171-184
does_vectorstore_exist(pd) ==
    IF pd.index_dir
    THEN IF pd.collections_parquet /\ pd.embeddings_parquet
         THEN pd.index_files > 3
         ELSE FALSE
    ELSE FALSE

\* Variant: the sources of the collection are not read.
no_sources(st) == {}

\* ingest.py:201  [metadata['source'] for metadata in collection['metadatas']]
sources_in(st) == {f \in DOMAIN st : st[f] > 0}

\* Variant: the empty list is not detected.
never_empty(docs) == FALSE

\* ingest.py:150  if not documents
no_documents(docs) == docs = <<>>

\* Variant: the loop ends as soon as no finished result is waiting.
pool_drained(n, files, queue) == queue = <<>>

\* ingest.py:130  the for loop over imap_unordered ends once it has yielded
\* one result per submitted file
all_results_taken(n, files, queue) == n = Cardinality(files)

Running == {f \in Files : task[f] = "running"}
Pending == {f \in Files : task[f] = "pending"}

NoTasks == [f \in Files |-> "none"]
NoPrev == [outcome |-> "none", truncated |-> FALSE, added |-> 0]

\* -------------------------------------------------------------- Init ----
IngestInit ==
    /\ source_dir \in [Files -> DirEntries]
    /\ persist_dir \in PersistLayouts
    /\ store = [f \in Files |-> 0]
    /\ dirty = FALSE
    /\ pc = "main"
    /\ mode = "none"
    /\ ignored_files = {}
    /\ filtered_files = {}
    /\ task = NoTasks
    /\ outqueue = <<>>
    /\ collected = 0
    /\ results = <<>>
    /\ documents = <<>>
    /\ texts = <<>>
    /\ log = {}
    /\ added = 0
    /\ exit_status = -1
    /\ run = 1
    /\ prev = NoPrev

\* The state of the ingestion variables while another tool is modelled.
IngestIdle ==
    /\ source_dir = [f \in Files |-> [parts |-> 0, raises |-> FALSE]]
    /\ persist_dir = [index_dir |-> FALSE, collections_parquet |-> FALSE,
                      embeddings_parquet |-> FALSE, index_files |-> 0]
    /\ store = [f \in Files |-> 0]
    /\ dirty = FALSE
    /\ pc = "idle"
    /\ mode = "none"
    /\ ignored_files = {}
    /\ filtered_files = {}
    /\ task = NoTasks
    /\ outqueue = <<>>
    /\ collected = 0
    /\ results = <<>>
    /\ documents = <<>>
    /\ texts = <<>>
    /\ log = {}
    /\ added = 0
    /\ exit_status = -1
    /\ run = 1
    /\ prev = NoPrev

LoaderIdle ==
    /\ file_path = <<>>
    /\ lpc = "idle"
    /\ ext = <<>>
    /\ loader = "none"
    /\ content_source = "default"
    /\ parse_calls = 0
    /\ first_outcome = [kind |-> "none"]
    /\ retry_outcome = [kind |-> "none"]
    /\ lresult = [kind |-> "none"]

QueryIdle ==
    /\ model_type = "GPT4All"
    /\ args = [mute_stream |-> FALSE, hide_source |-> FALSE]
    /\ questions = 0
    /\ qpc = "idle"
    /\ qtrace = <<>>
    /\ answered = 0
    /\ qexit = "running"

Init == IngestInit /\ LoaderIdle /\ QueryIdle

\* ----------------------------------------------------------- actions ----
\* ingest.py:193-201, 207-210: build the embeddings, choose the branch and
\* read the sources to ignore.
MainChooseBranch ==
    /\ UNCHANGED <<loaderVars, queryVars>>
    /\ pc = "main"
    /\ IF does_vectorstore_exist(persist_dir)
       THEN /\ mode' = "append"
            /\ ignored_files' = sources_in(store)
            /\ log' = log \cup {"embeddings", "open_store", "get_collection"}
       ELSE /\ mode' = "create"
            /\ ignored_files' = {}
            /\ log' = log \cup {"embeddings"}
    /\ pc' = "load"
    /\ UNCHANGED <<source_dir, persist_dir, store, dirty, filtered_files, task,
                   outqueue, collected, results, documents, texts, added,
                   exit_status, run, prev>>

\* ingest.py:112-130: glob the directory, drop the ignored files, start the
\* pool and submit one task per remaining file.
LoadDocumentsSubmit ==
    /\ UNCHANGED <<loaderVars, queryVars>>
    /\ pc = "load"
    /\ filtered_files' = {f \in Files : f \notin ignored_files}
    /\ task' = [f \in Files |-> IF f \notin ignored_files THEN "pending" ELSE "none"]
    /\ pc' = "pool"
    /\ UNCHANGED <<source_dir, persist_dir, store, dirty, mode, ignored_files,
                   outqueue, collected, results, documents, texts, log, added,
                   exit_status, run, prev>>

\* A pool worker that is free takes the next task of the task queue.
WorkerStart(f) ==
    /\ UNCHANGED <<loaderVars, queryVars>>
    /\ pc = "pool"
    /\ task[f] = "pending"
    /\ \A g \in Pending : f <= g
    /\ Cardinality(Running) < NumWorkers
    /\ task' = [task EXCEPT ![f] = "running"]
    /\ UNCHANGED <<source_dir, persist_dir, store, dirty, pc, mode, ignored_files,
                   filtered_files, outqueue, collected, results, documents,
                   texts, log, added, exit_status, run, prev>>

\* ingest.py:91-102 in a worker: load_single_document returns or raises, and
\* the outcome is put on the pool's result queue.
WorkerFinish(f) ==
    /\ UNCHANGED <<loaderVars, queryVars>>
    /\ pc = "pool"
    /\ task[f] = "running"
    /\ task' = [task EXCEPT ![f] = "done"]
    /\ outqueue' = Append(outqueue, f)
    /\ UNCHANGED <<source_dir, persist_dir, store, dirty, pc, mode, ignored_files,
                   filtered_files, collected, results, documents, texts, log,
                   added, exit_status, run, prev>>

\* ingest.py:130-136: the main process takes the next finished result.  A
\* result that is an exception is raised again in the main process; nothing
\* catches it, the with-block terminates the pool and the process dies.
MainTakeResult ==
    /\ UNCHANGED <<loaderVars, queryVars>>
    /\ pc = "pool"
    /\ outqueue # <<>>
    /\ LET f == Head(outqueue) IN
        IF source_dir[f].raises
        THEN /\ pc' = "crashed"
             /\ exit_status' = 1
             /\ task' = [g \in Files |->
                            IF task[g] \in {"pending", "running"}
                            THEN "terminated" ELSE task[g]]
             /\ outqueue' = <<>>
             /\ log' = log \cup {"traceback"}
             /\ UNCHANGED <<collected, results>>
        ELSE /\ results' = Extend(results, f, source_dir[f].parts)
             /\ collected' = collected + 1
             /\ outqueue' = Tail(outqueue)
             /\ UNCHANGED <<pc, exit_status, task, log>>
    /\ UNCHANGED <<source_dir, persist_dir, store, dirty, mode, ignored_files,
                   filtered_files, documents, texts, added, run, prev>>

\* ingest.py:130, 138: the loop ends, the pool is closed, results returned.
LoadDocumentsReturn ==
    /\ UNCHANGED <<loaderVars, queryVars>>
    /\ pc = "pool"
    /\ all_results_taken(collected, filtered_files, outqueue)
    /\ task' = [g \in Files |->
                   IF task[g] \in {"pending", "running"}
                   THEN "terminated" ELSE task[g]]
    /\ pc' = "process"
    /\ UNCHANGED <<source_dir, persist_dir, store, dirty, mode, ignored_files,
                   filtered_files, outqueue, collected, results, documents,
                   texts, log, added, exit_status, run, prev>>

\* ingest.py:148-166: the rest of process_documents.
ProcessDocuments ==
    /\ UNCHANGED <<loaderVars, queryVars>>
    /\ pc = "process"
    /\ IF no_documents(results)
       THEN /\ log' = log \cup {"no_new_documents"}
            /\ exit_status' = 0
            /\ pc' = "exited"
            /\ UNCHANGED <<documents, texts>>
       ELSE /\ documents' =
                  IF Total(results) > max_number_of_parts_per_run
                  THEN Truncate(results) ELSE results
            /\ texts' = split_documents(documents')
            /\ log' = log \cup {"found", "split"}
                          \cup (IF Total(results) > max_number_of_parts_per_run
                                THEN {"truncating"} ELSE {})
            /\ pc' = "commit"
            /\ UNCHANGED exit_status
    /\ UNCHANGED <<source_dir, persist_dir, store, dirty, mode, ignored_files,
                   filtered_files, task, outqueue, collected, results, added,
                   run, prev>>

\* ingest.py:202-206 and 211-212: write the chunks to the vector store.
Commit ==
    /\ UNCHANGED <<loaderVars, queryVars>>
    /\ pc = "commit"
    /\ IF mode = "append"
       THEN IF Len(texts) > 0
            THEN /\ store' = [f \in Files |-> store[f] + PartsOf(texts, f)]
                 /\ added' = added + Total(texts)
                 /\ dirty' = TRUE
                 /\ log' = log \cup {"add_documents"}
            ELSE /\ log' = log \cup {"no_new_embeddings"}
                 /\ UNCHANGED <<store, added, dirty>>
       ELSE /\ store' = [f \in Files |-> store[f] + PartsOf(texts, f)]
            /\ added' = added + Total(texts)
            /\ dirty' = TRUE
            /\ log' = log \cup {"from_documents"}
    /\ pc' = "persist"
    /\ UNCHANGED <<source_dir, persist_dir, mode, ignored_files, filtered_files,
                   task, outqueue, collected, results, documents, texts,
                   exit_status, run, prev>>

\* ingest.py:215-216: db.persist() flushes the collection to the persist
\* directory.  A collection that holds records is written as the index
\* directory, the two parquet files and the four files of its index.
Persist ==
    /\ UNCHANGED <<loaderVars, queryVars>>
    /\ pc = "persist"
    /\ dirty' = FALSE
    /\ persist_dir' =
          IF \E f \in Files : store[f] > 0
          THEN [index_dir |-> TRUE,
                collections_parquet |-> TRUE,
                embeddings_parquet |-> TRUE,
                index_files |-> Max(persist_dir.index_files, 4)]
          ELSE persist_dir
    /\ log' = log \cup {"persist"}
    /\ pc' = "report"
    /\ UNCHANGED <<source_dir, store, mode, ignored_files, filtered_files, task,
                   outqueue, collected, results, documents, texts, added,
                   exit_status, run, prev>>

\* ingest.py:218: report completion; main returns and the process ends.
ReportCompletion ==
    /\ UNCHANGED <<loaderVars, queryVars>>
    /\ pc = "report"
    /\ log' = log \cup {"complete"}
    /\ exit_status' = 0
    /\ pc' = "done"
    /\ UNCHANGED <<source_dir, persist_dir, store, dirty, mode, ignored_files,
                   filtered_files, task, outqueue, collected, results,
                   documents, texts, added, run, prev>>

\* The tool is started again over the same directories.
NextRun ==
    /\ UNCHANGED <<loaderVars, queryVars>>
    /\ pc \in {"done", "exited", "crashed"}
    /\ run < MaxRuns
    /\ prev' = [outcome |-> pc,
                truncated |-> "truncating" \in log,
                added |-> added]
    /\ run' = run + 1
    /\ pc' = "main"
    /\ mode' = "none"
    /\ ignored_files' = {}
    /\ filtered_files' = {}
    /\ task' = NoTasks
    /\ outqueue' = <<>>
    /\ collected' = 0
    /\ results' = <<>>
    /\ documents' = <<>>
    /\ texts' = <<>>
    /\ log' = {}
    /\ added' = 0
    /\ exit_status' = -1
    /\ dirty' = FALSE
    /\ UNCHANGED <<source_dir, persist_dir, store>>

Next ==
    \/ MainChooseBranch
    \/ LoadDocumentsSubmit
    \/ \E f \in Files : WorkerStart(f)
    \/ \E f \in Files : WorkerFinish(f)
    \/ MainTakeResult
    \/ LoadDocumentsReturn
    \/ ProcessDocuments
    \/ Commit
    \/ Persist
    \/ ReportCompletion
    \/ NextRun

Spec == Init /\ [][Next]_vars

\* ------------------------------------------------ claims on ingest.py ----
AfterLoad == pc \in {"commit", "persist", "report", "done"}
Writes == {"from_documents", "add_documents", "persist"}
LayoutComplete ==
    /\ persist_dir.index_dir
    /\ persist_dir.collections_parquet
    /\ persist_dir.embeddings_parquet

\* All orders in which the tasks of a set of files can complete.
Orders(S) ==
    {o \in [1..Cardinality(S) -> S] : \A i, j \in DOMAIN o : o[i] = o[j] => i = j}

\* The merged list load_documents returns when tasks complete in this order.
RECURSIVE MergedUpTo(_, _)
MergedUpTo(order, k) ==
    IF k = 0 THEN <<>>
    ELSE Extend(MergedUpTo(order, k - 1), order[k], source_dir[order[k]].parts)

KeptPerFile(docs) == [f \in Files |-> PartsOf(docs, f)]

KeptUnder(order) ==
    LET m == MergedUpTo(order, Len(order))
    IN KeptPerFile(IF Total(m) > max_number_of_parts_per_run THEN Truncate(m) ELSE m)

\* d holds the first parts of m, in m's order
IsPrefixOf(d, m) ==
    /\ Len(d) <= Len(m)
    /\ \A i \in 1..Len(d) :
          /\ d[i].source = m[i].source
          /\ IF i < Len(d) THEN d[i].parts = m[i].parts
                           ELSE d[i].parts <= m[i].parts

\* C1 as stated: after a run that completed against a persisted index, the
\* next run over the unchanged directory adds no chunk to the vector store.
C1_SecondRunAddsNothing ==
    prev.outcome = "done" => (added = 0 /\ texts = <<>>)

\* C1 amended: after a run that completed without truncating its document
\* list, the next run over the unchanged directory adds no chunk.
C1_SecondRunAddsNothingUnlessTruncated ==
    (prev.outcome = "done" /\ ~prev.truncated) => (added = 0 /\ texts = <<>>)

C1_Witness ==
    /\ prev.outcome = "done"
    /\ ~prev.truncated
    /\ prev.added > 0
    /\ mode = "append"
    /\ ignored_files # {}
    /\ pc = "exited"

\* C2: a loader that raises for one file does not abort the batch: the run
\* does not die, and once loading is over the documents of every other file
\* of the batch have been collected.
C2_FailureIsolation ==
    /\ pc # "crashed"
    /\ (pc \in {"process", "exited", "commit", "persist", "report", "done"}) =>
          \A f \in filtered_files :
              ~source_dir[f].raises => PartsOf(results, f) = source_dir[f].parts

C5_NoNewDocuments ==
    /\ AfterLoad => Total(results) > 0
    /\ (pc = "exited") =>
          /\ results = <<>>
          /\ exit_status = 0
          /\ log \cap ({"split", "complete"} \cup Writes) = {}
          /\ texts = <<>>
          /\ added = 0
          /\ ~dirty

C5_Witness ==
    /\ pc = "exited"
    /\ mode = "append"
    /\ filtered_files # {}
    /\ "no_new_documents" \in log

\* C6 amended: the list handed to the splitter never has more parts than the
\* ceiling; when the merged list is longer, the splitter gets exactly its
\* first `ceiling` parts in the order the results were collected, and the
\* truncation is logged; otherwise it gets the whole list and nothing is
\* logged.
C6_TruncationKeepsFirstParts ==
    AfterLoad =>
        /\ Total(documents) <= max_number_of_parts_per_run
        /\ IsPrefixOf(documents, results)
        /\ Total(documents) = Min(Total(results), max_number_of_parts_per_run)
        /\ ("truncating" \in log) <=> (Total(results) > max_number_of_parts_per_run)
        /\ (Total(results) <= max_number_of_parts_per_run) => documents = results
        /\ Total(texts) = Total(documents) * ChunksPerPart

\* C6 as stated: the above, and the parts kept are the same whatever the order
\* in which the workers complete.
C6_TruncationIsDeterministic ==
    AfterLoad =>
        /\ Total(documents) <= max_number_of_parts_per_run
        /\ IsPrefixOf(documents, results)
        /\ ("truncating" \in log) <=> (Total(results) > max_number_of_parts_per_run)
        /\ \A o \in Orders(filtered_files) : KeptUnder(o) = KeptPerFile(documents)

C6_Witness ==
    /\ pc = "commit"
    /\ "truncating" \in log
    /\ Len(results) = 2
    /\ Len(documents) = 2
    /\ documents[2].parts < results[2].parts

\* C9: nothing is written to the vector store unless every load task of the
\* batch has completed, its result has been taken and the chunks have been
\* computed; and a run that reports completion has persisted what it wrote.
C9_CommitAfterFanIn ==
    /\ (log \cap Writes # {} \/ dirty \/ added > 0) =>
          /\ \A f \in filtered_files : task[f] = "done"
          /\ \A f \in Files : task[f] \notin {"pending", "running"}
          /\ collected = Cardinality(filtered_files)
          /\ outqueue = <<>>
          /\ "split" \in log
    /\ ("complete" \in log \/ pc = "done") => ("persist" \in log /\ ~dirty)

C9_Witness ==
    /\ pc = "done"
    /\ Cardinality(filtered_files) >= 2
    /\ Len(results) >= 2
    /\ added > 0

\* C10: when every file loads, a run that finds nothing new to ingest leaves
\* every part of every file in the index.
C10_EveryPartIndexed ==
    (pc = "exited" /\ \A f \in Files : ~source_dir[f].raises) =>
        \A f \in Files : store[f] >= source_dir[f].parts * ChunksPerPart

\* ==================================================== ingest.py: loaders ==
MaxPathLen == 5        \* longest file path tried

\* The characters paths are made of: enough for a directory separator, a
\* dot, and the extensions .md and .eml in either case.
PathChars == {"a", ".", "/", "m", "d", "M", "D", "e", "l"}
Paths == UNION {[1..n -> PathChars] : n \in 0..MaxPathLen}

\* ingest.py:71-87, the dict literal in source order; a key written twice
\* keeps the value written last.
LOADER_MAPPING == <<
    [key |-> <<".", "c", "s", "v">>, class |-> "CSVLoader"],
    [key |-> <<".", "d", "o", "c", "x">>, class |-> "Docx2txtLoader"],
    [key |-> <<".", "d", "o", "c">>, class |-> "UnstructuredWordDocumentLoader"],
    [key |-> <<".", "d", "o", "c", "x">>, class |-> "UnstructuredWordDocumentLoader"],
    [key |-> <<".", "e", "n", "e", "x">>, class |-> "EverNoteLoader"],
    [key |-> <<".", "e", "m", "l">>, class |-> "MyElmLoader"],
    [key |-> <<".", "e", "p", "u", "b">>, class |-> "UnstructuredEPubLoader"],
    [key |-> <<".", "h", "t", "m", "l">>, class |-> "UnstructuredHTMLLoader"],
    [key |-> <<".", "m", "d">>, class |-> "UnstructuredMarkdownLoader"],
    [key |-> <<".", "o", "d", "t">>, class |-> "UnstructuredODTLoader"],
    [key |-> <<".", "p", "d", "f">>, class |-> "PyMuPDFLoader"],
    [key |-> <<".", "p", "p", "t">>, class |-> "UnstructuredPowerPointLoader"],
    [key |-> <<".", "p", "p", "t", "x">>, class |-> "UnstructuredPowerPointLoader"],
    [key |-> <<".", "t", "x", "t">>, class |-> "TextLoader"]
>>

LoaderKeys == {LOADER_MAPPING[i].key : i \in DOMAIN LOADER_MAPPING}

LoaderFor(k) ==
    LET I == {i \in DOMAIN LOADER_MAPPING : LOADER_MAPPING[i].key = k}
    IN LOADER_MAPPING[CHOOSE i \in I : \A j \in I : j <= i].class

\* The position of the last c in p, 0 when there is none.
LastIndexOf(p, c) ==
    LET I == {i \in 1..Len(p) : p[i] = c}
    IN IF I = {} THEN 0 ELSE CHOOSE i \in I : \A j \in I : j <= i

\* p.rsplit(c, 1)[-1]: what follows the last c, the whole of p without a c
RSplitLast(p, c) == SubSeq(p, LastIndexOf(p, c) + 1, Len(p))

\* ingest.py:94  ext = "." + file_path.rsplit(".", 1)[-1]
ExtOf(p) == <<".">> \o RSplitLast(p, ".")

\* Exceptions a loader's load() can raise.  UnicodeDecodeError is a subclass
\* of ValueError whose constructor takes five arguments, not one message.
HtmlNotFound == [type |-> "ValueError", is_value_error |-> TRUE,
                 html_not_found |-> TRUE, message_ctor |-> TRUE]
OtherValueError == [type |-> "ValueError", is_value_error |-> TRUE,
                    html_not_found |-> FALSE, message_ctor |-> TRUE]
DecodeError == [type |-> "UnicodeDecodeError", is_value_error |-> TRUE,
                html_not_found |-> FALSE, message_ctor |-> FALSE]
OsError == [type |-> "OSError", is_value_error |-> FALSE,
            html_not_found |-> FALSE, message_ctor |-> TRUE]
Exceptions == {HtmlNotFound, OtherValueError, DecodeError, OsError}
NoCause == [type |-> "none"]

ParseOutcomes == {[kind |-> "docs"]} \cup {[kind |-> "raise", exc |-> e] : e \in Exceptions}

Raised(t, path, cause, names) ==
    [kind |-> "raised", type |-> t, has_path |-> path, cause |-> cause,
     names |-> names]

\* ingest.py:63-65  raise type(e)(f"{self.file_path}: {e}") from e
\* type(e)(message) itself raises TypeError when the class cannot be built
\* from one message; that TypeError is what leaves load().
Wrap(e) ==
    IF e.message_ctor
    THEN Raised(e.type, TRUE, e, <<>>)
    ELSE Raised("TypeError", FALSE, NoCause, <<>>)

\* ingest.py:56-57  except ValueError as e: if '...not found in email' in str(e)
ShouldRetry(e) == e.is_value_error /\ e.html_not_found

LoaderInit ==
    /\ file_path \in Paths
    /\ lpc = "call"
    /\ ext = <<>>
    /\ loader = "none"
    /\ content_source = "default"
    /\ parse_calls = 0
    /\ first_outcome = [kind |-> "none"]
    /\ retry_outcome = [kind |-> "none"]
    /\ lresult = [kind |-> "none"]

\* ingest.py:94-99, 102: compute the extension and look the loader up.
LoadSingleDocument ==
    /\ lpc = "call"
    /\ ext' = ExtOf(file_path)
    /\ IF ext' \in LoaderKeys
       THEN /\ loader' = LoaderFor(ext')
            /\ lpc' = IF loader' = "MyElmLoader" THEN "elm_load" ELSE "load"
            /\ UNCHANGED lresult
       ELSE /\ lresult' = Raised("ValueError", FALSE, NoCause, ext')
            /\ lpc' = "raised"
            /\ UNCHANGED loader
    /\ UNCHANGED <<file_path, content_source, parse_calls, first_outcome,
                   retry_outcome>>
    /\ UNCHANGED <<ingestVars, queryVars>>

\* ingest.py:100 for every loader but MyElmLoader: load() returns documents
\* or raises, and the exception leaves load_single_document as it is.
LoaderLoad ==
    /\ lpc = "load"
    /\ \E o \in ParseOutcomes :
          /\ first_outcome' = o
          /\ parse_calls' = parse_calls + 1
          /\ IF o.kind = "docs"
             THEN lresult' = [kind |-> "docs"] /\ lpc' = "returned"
             ELSE lresult' = Raised(o.exc.type, FALSE, NoCause, <<>>) /\ lpc' = "raised"
    /\ UNCHANGED <<file_path, ext, loader, content_source, retry_outcome>>
    /\ UNCHANGED <<ingestVars, queryVars>>

\* ingest.py:53-57, 61-67: MyElmLoader.load up to the end of the first parse.
ElmFirstParse ==
    /\ lpc = "elm_load"
    /\ \E o \in ParseOutcomes :
          /\ first_outcome' = o
          /\ parse_calls' = parse_calls + 1
          /\ IF o.kind = "docs"
             THEN /\ lresult' = [kind |-> "docs"]
                  /\ lpc' = "returned"
                  /\ UNCHANGED content_source
             ELSE IF ShouldRetry(o.exc)
                  THEN /\ content_source' = "text/plain"
                       /\ lpc' = "elm_retry"
                       /\ UNCHANGED lresult
                  ELSE /\ lresult' = Wrap(o.exc)
                       /\ lpc' = "raised"
                       /\ UNCHANGED content_source
    /\ UNCHANGED <<file_path, ext, loader, retry_outcome>>
    /\ UNCHANGED <<ingestVars, queryVars>>

\* ingest.py:58-60, 63-67: the second parse, with text/plain forced.
ElmRetry ==
    /\ lpc = "elm_retry"
    /\ \E o \in ParseOutcomes :
          /\ retry_outcome' = o
          /\ parse_calls' = parse_calls + 1
          /\ IF o.kind = "docs"
             THEN lresult' = [kind |-> "docs"] /\ lpc' = "returned"
             ELSE lresult' = Wrap(o.exc) /\ lpc' = "raised"
    /\ UNCHANGED <<file_path, ext, loader, content_source, first_outcome>>
    /\ UNCHANGED <<ingestVars, queryVars>>

LoaderNext ==
    \/ LoadSingleDocument
    \/ LoaderLoad
    \/ ElmFirstParse
    \/ ElmRetry

InitLoader == LoaderInit /\ IngestIdle /\ QueryIdle

SpecLoader == InitLoader /\ [][LoaderNext]_vars

\* ------------------------------------------------ claims on the loaders ----
Lower(c) == CASE c = "M" -> "m" [] c = "D" -> "d" [] OTHER -> c
LowerSeq(w) == [i \in 1..Len(w) |-> Lower(w[i])]

\* The lower-cased extension of the final component of p, <<>> when the
\* final component has no dot.
ExtensionOfFinalComponent(p) ==
    LET name == RSplitLast(p, "/")
    IN IF LastIndexOf(name, ".") = 0 THEN <<>>
       ELSE LowerSeq(<<".">> \o RSplitLast(name, "."))

\* C7: the loader is the table's entry for the lower-cased extension of the
\* path's final component; a path whose extension is not in the table fails
\* with an unsupported-format error naming the extension, no loader invoked.
\* (Stated for the paths whose final component has an extension.)
C7_ExtensionDispatch ==
    (lpc \notin {"idle", "call"} /\ ExtensionOfFinalComponent(file_path) # <<>>) =>
        LET e == ExtensionOfFinalComponent(file_path)
        IN IF e \in LoaderKeys
           THEN loader = LoaderFor(e)
           ELSE /\ loader = "none"
                /\ parse_calls = 0
                /\ lresult.kind = "raised"
                /\ lresult.type = "ValueError"
                /\ LowerSeq(lresult.names) = e

\* C8: a first parse that fails with "text/html content not found" is retried
\* once in text/plain mode and a successful retry is returned; any other
\* failure of the first parse is not retried and is raised again with the
\* file path in its message and the original error as its cause.
C8_EmailFallback ==
    (loader = "MyElmLoader" /\ lpc \in {"returned", "raised"}) =>
        /\ (first_outcome.kind = "docs") =>
              (parse_calls = 1 /\ lresult.kind = "docs")
        /\ (first_outcome.kind = "raise" /\ first_outcome.exc = HtmlNotFound) =>
              /\ parse_calls = 2
              /\ content_source = "text/plain"
              /\ (retry_outcome.kind = "docs") => lresult.kind = "docs"
        /\ (first_outcome.kind = "raise" /\ first_outcome.exc # HtmlNotFound) =>
              /\ parse_calls = 1
              /\ retry_outcome.kind = "none"
              /\ lresult.kind = "raised"
              /\ lresult.type = first_outcome.exc.type
              /\ lresult.has_path
              /\ lresult.cause = first_outcome.exc

\* ======================================================== privateGPT.py ==
MaxQuestions == 2      \* longest list of questions passed to main

ModelTypes == {"LlamaCpp", "GPT4All", "Unsupported", "unset"}

QueryInit ==
    /\ model_type \in ModelTypes
    /\ args \in [mute_stream : BOOLEAN, hide_source : BOOLEAN]
    /\ questions \in 0..MaxQuestions
    /\ qpc = "parse_arguments"
    /\ qtrace = <<>>
    /\ answered = 0
    /\ qexit = "running"

QStep(from, to, what) ==
    /\ qpc = from
    /\ qpc' = to
    /\ qtrace' = Append(qtrace, what)

\* privateGPT.py:30
ParseArguments ==
    /\ QStep("parse_arguments", "embeddings", "parse_arguments")
    /\ UNCHANGED <<model_type, args, questions, answered, qexit>>
    /\ UNCHANGED <<ingestVars, loaderVars>>

\* privateGPT.py:33
CreateEmbeddings ==
    /\ QStep("embeddings", "db", "embeddings")
    /\ UNCHANGED <<model_type, args, questions, answered, qexit>>
    /\ UNCHANGED <<ingestVars, loaderVars>>

\* privateGPT.py:34
OpenVectorStore ==
    /\ QStep("db", "retriever", "db")
    /\ UNCHANGED <<model_type, args, questions, answered, qexit>>
    /\ UNCHANGED <<ingestVars, loaderVars>>

\* privateGPT.py:35
BuildRetriever ==
    /\ QStep("retriever", "callbacks", "retriever")
    /\ UNCHANGED <<model_type, args, questions, answered, qexit>>
    /\ UNCHANGED <<ingestVars, loaderVars>>

\* privateGPT.py:38
SetCallbacks ==
    /\ QStep("callbacks", "llm",
             IF args.mute_stream THEN "callbacks:none" ELSE "callbacks:stdout")
    /\ UNCHANGED <<model_type, args, questions, answered, qexit>>
    /\ UNCHANGED <<ingestVars, loaderVars>>

\* privateGPT.py:41-51: match model_type
PrepareLLM ==
    /\ qpc = "llm"
    /\ IF model_type = "LlamaCpp"
       THEN /\ qtrace' = Append(qtrace, "llm:LlamaCpp")
            /\ qpc' = "qa"
            /\ UNCHANGED qexit
       ELSE IF model_type = "GPT4All"
            THEN /\ qtrace' = Append(qtrace, "llm:GPT4All")
                 /\ qpc' = "qa"
                 /\ UNCHANGED qexit
            ELSE /\ qtrace' = Append(qtrace, "raise")
                 /\ qpc' = "failed"
                 /\ qexit' = "model type not supported"
    /\ UNCHANGED <<model_type, args, questions, answered>>
    /\ UNCHANGED <<ingestVars, loaderVars>>

\* privateGPT.py:54
BuildQA ==
    /\ QStep("qa", "questions", "qa")
    /\ UNCHANGED <<model_type, args, questions, answered, qexit>>
    /\ UNCHANGED <<ingestVars, loaderVars>>

\* privateGPT.py:57-77: one pass of the loop over the questions
AnswerQuestion ==
    /\ qpc = "questions"
    /\ answered < questions
    /\ answered' = answered + 1
    /\ qtrace' = Append(qtrace,
                        IF args.hide_source THEN "answer" ELSE "answer+sources")
    /\ UNCHANGED <<model_type, args, questions, qpc, qexit>>
    /\ UNCHANGED <<ingestVars, loaderVars>>

\* privateGPT.py:57: the loop is over and main returns
MainReturn ==
    /\ qpc = "questions"
    /\ answered = questions
    /\ qpc' = "returned"
    /\ qexit' = "ok"
    /\ UNCHANGED <<model_type, args, questions, qtrace, answered>>
    /\ UNCHANGED <<ingestVars, loaderVars>>

QueryNext ==
    \/ ParseArguments
    \/ CreateEmbeddings
    \/ OpenVectorStore
    \/ BuildRetriever
    \/ SetCallbacks
    \/ PrepareLLM
    \/ BuildQA
    \/ AnswerQuestion
    \/ MainReturn

InitQuery == QueryInit /\ IngestIdle /\ LoaderIdle

SpecQuery == InitQuery /\ [][QueryNext]_vars

\* --------------------------------------------- claims on privateGPT.py ----
Done(what) == \E i \in DOMAIN qtrace : qtrace[i] = what

\* C3: with a MODEL_TYPE outside {LlamaCpp, GPT4All} the query tool fails
\* with the unsupported-model-type error before the embedding provider is
\* built, before the vector store is opened, before a retriever is built and
\* before any question is processed.
C3_FailFastOnUnsupportedBackend ==
    /\ (model_type \notin {"LlamaCpp", "GPT4All"} /\ qpc \in {"failed", "returned"}) =>
          qexit = "model type not supported"
    /\ (qexit = "model type not supported") =>
          /\ model_type \notin {"LlamaCpp", "GPT4All"}
          /\ ~Done("embeddings")
          /\ ~Done("db")
          /\ ~Done("retriever")
          /\ answered = 0

====
